---------------------------- MODULE Spec2Model ----------------------------
(***************************************************************************)
(* model_explorer: the loader (loader.py), the name-hierarchy tree builder *)
(* (tree.py) and the rebuild-on-filter logic of the Textual app (app.py).  *)
(*                                                                         *)
(* A Python str is a sequence of one-character strings; Optional[X] is a   *)
(* sequence of length 0 (None) or 1 (the value); a dict is the sequence of *)
(* its keys in insertion order together with the bucket of each key.       *)
(***************************************************************************)
EXTENDS Integers, Sequences, FiniteSets, TLC

VARIABLES
    in_tensors,        \* SpecTree: the tensors argument of build_tree_mixed
    in_metadata,       \* SpecTree: the metadata argument of build_tree_mixed
    tree_pc,           \* SpecTree: "input" before the call, then "built" or "raised"
    tree_result,       \* SpecTree: the list build_tree_mixed returned
    files_n,           \* ModelLoader: len(self.files)
    file_idx,          \* ModelLoader.load: the files the for loop is through
    load_pc,           \* ModelLoader.load: "files" in the loop, "done" after it
    l_tensors,         \* ModelLoader.tensors
    l_metadata,        \* ModelLoader.metadata
    total_parameters,  \* ModelLoader.total_parameters
    h_files,           \* history: for each file attempted, in order, whether its
                       \* decoder returned ("ok") or raised ("error"), and the
                       \* tensors and metadata it appended
    load_calls,        \* how many calls of ModelLoader.load() have begun
    h_loads,           \* history: tensors, metadata and total_parameters of the
                       \* loader at the return of each call of load()
    app_pc,            \* SafetensorsExplorerApp: "mounting" until on_mount is through
    app_tensors,       \* SafetensorsExplorerApp.tensors
    app_metadata,      \* SafetensorsExplorerApp.metadata
    app_total,         \* SafetensorsExplorerApp.total_parameters
    search_value,      \* the value of the Input #search-input
    search_active,     \* whether the app has the class search-active
    widget_tree,       \* the TreeNodes under the root of the Tree #file-tree
    h_built,           \* history: the first tree shown for each filter text
    fn_pc,             \* a call of a function on its own: "call" before it,
                       \* then "returned" or "raised"
    fn_args,           \* the arguments of that call
    fn_result          \* what the call returned

tree_vars == <<in_tensors, in_metadata, tree_pc, tree_result>>

load_vars ==
    <<files_n, file_idx, load_pc, l_tensors, l_metadata, total_parameters,
      h_files, load_calls, h_loads>>

app_vars ==
    <<app_pc, app_tensors, app_metadata, app_total, search_value,
      search_active, widget_tree, h_built>>

fn_vars == <<fn_pc, fn_args, fn_result>>

vars == <<tree_vars, load_vars, app_vars, fn_vars>>

-----------------------------------------------------------------------------
(* Bounds of the model *)

MaxRecords == 3

MaxFiles == 2

MaxLoadedTensors == 3

MaxLoadedMetadata == 2

MaxAppTensors == 2

MaxAppMetadata == 1

MaxDims == 2

MaxKeyTexts == 3

MaxLoadCalls == 2

MaxLimbs == 3

-----------------------------------------------------------------------------
(* Python str helpers *)

None == <<>>

Some(x) == <<x>>

DOT == "."

AsciiDigits == {"0", "1", "2", "3", "4", "5", "6", "7", "8", "9"}

\* the superscript two U+00B2: str.isdigit() is true of it, int() rejects it
SUPER2 == "(superscript two)"

\* the Arabic-Indic digit three U+0663: str.isdigit() is true of it, int()
\* reads it as 3, and [0-9] does not match it
ARABIC3 == "(arabic-indic three)"

\* str.isdigit() of one character
IsDigitChar(c) == c \in AsciiDigits \cup {SUPER2, ARABIC3}

\* the characters int() reads as a decimal digit
IsDecimalChar(c) == c \in AsciiDigits \cup {ARABIC3}

DigitValue(c) ==
    CASE c = "0" -> 0 [] c = "1" -> 1 [] c = "2" -> 2 [] c = "3" -> 3
      [] c = "4" -> 4 [] c = "5" -> 5 [] c = "6" -> 6 [] c = "7" -> 7
      [] c = "8" -> 8 [] c = "9" -> 9 [] c = ARABIC3 -> 3

UpperLetters ==
    <<"A", "B", "C", "D", "E", "F", "G", "H", "I", "J", "K", "L", "M",
      "N", "O", "P", "Q", "R", "S", "T", "U", "V", "W", "X", "Y", "Z">>

LowerLetters ==
    <<"a", "b", "c", "d", "e", "f", "g", "h", "i", "j", "k", "l", "m",
      "n", "o", "p", "q", "r", "s", "t", "u", "v", "w", "x", "y", "z">>

\* the wrench sign U+1F527 that starts the metadata group's name
WRENCH == "(wrench)"

Range(f) == {f[i] : i \in DOMAIN f}

Chars ==
    Range(UpperLetters) \cup Range(LowerLetters) \cup AsciiDigits
        \cup {" ", ".", "_", WRENCH, SUPER2, ARABIC3}

\* ord(c)
CodePointTable ==
    [c \in Chars |->
        IF c \in Range(UpperLetters)
        THEN 64 + (CHOOSE i \in 1..26 : UpperLetters[i] = c)
        ELSE IF c \in Range(LowerLetters)
        THEN 96 + (CHOOSE i \in 1..26 : LowerLetters[i] = c)
        ELSE IF c \in AsciiDigits THEN 48 + DigitValue(c)
        ELSE IF c = " " THEN 32
        ELSE IF c = "." THEN 46
        ELSE IF c = "_" THEN 95
        ELSE IF c = SUPER2 THEN 178
        ELSE IF c = ARABIC3 THEN 1635
        ELSE 128295]

CodePoint(c) == CodePointTable[c]

\* str.lower() of one character
LowerTable ==
    [c \in Chars |->
        IF c \in Range(UpperLetters)
        THEN LowerLetters[CHOOSE i \in 1..26 : UpperLetters[i] = c]
        ELSE c]

LowerChar(c) == LowerTable[c]

Lower(s) == [i \in 1..Len(s) |-> LowerChar(s[i])]

\* Python's < on two str values: by code point, a proper prefix first
RECURSIVE StrLess(_, _)
StrLess(s, t) ==
    IF t = <<>> THEN FALSE
    ELSE IF s = <<>> THEN TRUE
    ELSE IF CodePoint(Head(s)) < CodePoint(Head(t)) THEN TRUE
    ELSE IF CodePoint(Head(s)) > CodePoint(Head(t)) THEN FALSE
    ELSE StrLess(Tail(s), Tail(t))

StartsWith(s, p) == Len(p) <= Len(s) /\ SubSeq(s, 1, Len(p)) = p

\* p in s, for str
Contains(s, p) ==
    \E i \in 0..(Len(s) - Len(p)) : SubSeq(s, i + 1, i + Len(p)) = p

\* s.split('.'): always at least one part; empty parts are kept
RECURSIVE SplitFrom(_, _, _)
SplitFrom(s, i, cur) ==
    IF i > Len(s) THEN <<cur>>
    ELSE IF s[i] = DOT THEN <<cur>> \o SplitFrom(s, i + 1, <<>>)
    ELSE SplitFrom(s, i + 1, Append(cur, s[i]))

Split(s) == SplitFrom(s, 1, <<>>)

\* int(text) for a run of decimal digits
RECURSIVE ToInt(_)
ToInt(s) ==
    IF s = <<>> THEN 0
    ELSE 10 * ToInt(SubSeq(s, 1, Len(s) - 1)) + DigitValue(s[Len(s)])

\* str.isdigit()
IsDigit(s) == s # <<>> /\ \A i \in 1..Len(s) : IsDigitChar(s[i])

\* int(text) returns: every character is a decimal digit (else ValueError)
IntAccepts(s) == s # <<>> /\ \A i \in 1..Len(s) : IsDecimalChar(s[i])

-----------------------------------------------------------------------------
(* natural_sort_key *)

\* re.split('([0-9]+)', text): text, digits, text, ..., text
RECURSIVE ReSplitFrom(_, _, _, _)
ReSplitFrom(s, i, cur, inDigits) ==
    IF i > Len(s) THEN (IF inDigits THEN <<cur, <<>>>> ELSE <<cur>>)
    ELSE IF s[i] \in AsciiDigits
         THEN IF inDigits THEN ReSplitFrom(s, i + 1, Append(cur, s[i]), TRUE)
              ELSE <<cur>> \o ReSplitFrom(s, i + 1, <<s[i]>>, TRUE)
         ELSE IF inDigits THEN <<cur>> \o ReSplitFrom(s, i + 1, <<s[i]>>, FALSE)
              ELSE ReSplitFrom(s, i + 1, Append(cur, s[i]), FALSE)

ReSplit(s) == ReSplitFrom(s, 1, <<>>, FALSE)

\* convert(): an int token or a lowercased str token; kind "ValueError" when
\* int(text) raises
Convert(tok) ==
    IF IsDigit(tok)
    THEN IF IntAccepts(tok) THEN [kind |-> "int", n |-> ToInt(tok), s |-> <<>>]
         ELSE [kind |-> "ValueError", n |-> 0, s |-> tok]
    ELSE [kind |-> "str", n |-> 0, s |-> Lower(tok)]

\* the list natural_sort_key builds, token by token
natural_sort_key(text) ==
    LET parts == ReSplit(text) IN [i \in 1..Len(parts) |-> Convert(parts[i])]

\* natural_sort_key(text) raises ValueError: some convert() call does
KeyRaises(text) ==
    \E i \in 1..Len(natural_sort_key(text)) :
        natural_sort_key(text)[i].kind = "ValueError"

\* a < b on two tokens of one kind
TokenLess(a, b) ==
    IF a.kind = "int" THEN a.n < b.n ELSE StrLess(a.s, b.s)

\* Python's < on two lists: the first unequal pair decides, else the length
RECURSIVE KeyLessFrom(_, _, _)
KeyLessFrom(k1, k2, i) ==
    IF i > Len(k1) THEN i <= Len(k2)
    ELSE IF i > Len(k2) THEN FALSE
    ELSE IF k1[i] = k2[i] THEN KeyLessFrom(k1, k2, i + 1)
    ELSE TokenLess(k1[i], k2[i])

KeyLess(k1, k2) == KeyLessFrom(k1, k2, 1)

\* k1 < k2 raises TypeError: the first unequal pair is an int and a str
RECURSIVE KeyCompareRaisesFrom(_, _, _)
KeyCompareRaisesFrom(k1, k2, i) ==
    IF i > Len(k1) \/ i > Len(k2) THEN FALSE
    ELSE IF k1[i] = k2[i] THEN KeyCompareRaisesFrom(k1, k2, i + 1)
    ELSE k1[i].kind # k2[i].kind

KeyCompareRaises(k1, k2) == KeyCompareRaisesFrom(k1, k2, 1)

NameLess(a, b) == KeyLess(natural_sort_key(a), natural_sort_key(b))

\* list.sort(key=lambda x: natural_sort_key(x.name)): stable
RECURSIVE InsertByName(_, _)
InsertByName(sorted, x) ==
    IF sorted = <<>> THEN <<x>>
    ELSE IF NameLess(x.name, sorted[Len(sorted)].name)
         THEN Append(InsertByName(SubSeq(sorted, 1, Len(sorted) - 1), x),
                     sorted[Len(sorted)])
         ELSE Append(sorted, x)

RECURSIVE SortByName(_)
SortByName(s) ==
    IF s = <<>> THEN <<>>
    ELSE InsertByName(SortByName(SubSeq(s, 1, Len(s) - 1)), s[Len(s)])

\* list.sort(key=...) raises: a key cannot be built (ValueError), or two of
\* the keys cannot be ordered (TypeError). A sort that returns has compared
\* every two neighbours of its result, and two keys that cannot be ordered
\* have no key between them, so the sort meets such a pair if there is one
SortRaises(s) ==
    \/ \E i \in 1..Len(s) : KeyRaises(s[i].name)
    \/ \E i, j \in 1..Len(s) :
          KeyCompareRaises(natural_sort_key(s[i].name),
                           natural_sort_key(s[j].name))

-----------------------------------------------------------------------------
(* tree.py: TensorInfo, MetadataInfo, TreeNode *)

TensorInfo(name, dtype, shape, size_bytes, num_elements) ==
    [name |-> name, dtype |-> dtype, shape |-> shape,
     size_bytes |-> size_bytes, num_elements |-> num_elements]

MetadataInfo(name, value, value_type) ==
    [name |-> name, value |-> value, value_type |-> value_type]

\* TreeNode(name=..., children=..., expanded=..., tensor_count=..., total_size=...)
GroupNode(name, children, expanded, tensor_count, total_size) ==
    [name |-> name, children |-> Some(children), expanded |-> expanded,
     tensor_count |-> tensor_count, total_size |-> total_size,
     tensor_info |-> None, metadata_info |-> None]

\* mutant of TensorNode: the leaf is given children=[] as well
TensorNodeWithChildren(t) ==
    [name |-> t.name, children |-> Some(<<>>), expanded |-> FALSE,
     tensor_count |-> 0, total_size |-> 0,
     tensor_info |-> Some(t), metadata_info |-> None]

\* TreeNode(name=tensor.name, tensor_info=tensor)
TensorNode(t) ==
    [name |-> t.name, children |-> None, expanded |-> FALSE,
     tensor_count |-> 0, total_size |-> 0,
     tensor_info |-> Some(t), metadata_info |-> None]

\* TreeNode(name=meta.name, metadata_info=meta)
MetadataNode(m) ==
    [name |-> m.name, children |-> None, expanded |-> FALSE,
     tensor_count |-> 0, total_size |-> 0,
     tensor_info |-> None, metadata_info |-> Some(m)]

is_group(node) == node.children # None

is_tensor(node) == node.tensor_info # None

is_metadata(node) == node.metadata_info # None

-----------------------------------------------------------------------------
(* tree.py: TreeBuilder *)

\* the keys of a dict in insertion order, from the keys in the order they are set
RECURSIVE FirstOccurrences(_)
FirstOccurrences(ks) ==
    IF ks = <<>> THEN <<>>
    ELSE LET front == SubSeq(ks, 1, Len(ks) - 1)
             seen == FirstOccurrences(front)
         IN IF \E i \in 1..Len(front) : front[i] = ks[Len(ks)]
            THEN seen ELSE Append(seen, ks[Len(ks)])

RECURSIVE Flatten(_)
Flatten(ss) == IF ss = <<>> THEN <<>> ELSE Head(ss) \o Flatten(Tail(ss))

\* sum(t.size_bytes for t in group_tensors)
RECURSIVE SumSizeBytes(_)
SumSizeBytes(ts) ==
    IF ts = <<>> THEN 0 ELSE Head(ts).size_bytes + SumSizeBytes(Tail(ts))

\* "_root", the key build_tree files the dot-less tensors under
ROOT_KEY == <<"_", "r", "o", "o", "t">>

\* the name of the metadata group: a wrench sign, then " Metadata"
METADATA_GROUP_NAME ==
    <<WRENCH, " ", "M", "e", "t", "a", "d", "a", "t", "a">>

\* the root_map key of one tensor
RootKey(t) ==
    LET parts == Split(t.name)
    IN IF Len(parts) > 1 THEN parts[1] ELSE ROOT_KEY

\* the part of the name after prefix + "."
Remaining(t, prefix) ==
    IF StartsWith(t.name, prefix \o <<DOT>>)
    THEN SubSeq(t.name, Len(prefix) + 2, Len(t.name))
    ELSE t.name

\* tensor_count = len(group_tensors)
GroupTensorCount(group_tensors) == Len(group_tensors)

\* sum(t.num_elements for t in group_tensors)
RECURSIVE SumNumElements(_)
SumNumElements(ts) ==
    IF ts = <<>> THEN 0 ELSE Head(ts).num_elements + SumNumElements(Tail(ts))

\* mutant of GroupTotalSize: the element counts are summed, not the byte sizes
GroupTotalSizeOfElements(group_tensors) == SumNumElements(group_tensors)

\* total_size = sum(t.size_bytes for t in group_tensors)
GroupTotalSize(group_tensors) == SumSizeBytes(group_tensors)

\* result.sort(key=lambda x: natural_sort_key(x.name))
SortNodes(nodes) == SortByName(nodes)

\* len(parts) == 1 in build_subtree
IsDirect(t, prefix) == Len(Split(Remaining(t, prefix))) = 1

\* next_prefix = parts[0]
NextPrefix(t, prefix) == Split(Remaining(t, prefix))[1]

\* direct_tensors once the first loop of build_subtree has run
DirectTensors(tensors, prefix) ==
    SelectSeq(tensors, LAMBDA t : IsDirect(t, prefix))

\* the keys of groups, in insertion order
GroupNames(tensors, prefix) ==
    LET grouped == SelectSeq(tensors, LAMBDA t : ~IsDirect(t, prefix))
    IN FirstOccurrences([i \in 1..Len(grouped) |->
                            NextPrefix(grouped[i], prefix)])

\* groups[group_name]
GroupBucket(tensors, prefix, group_name) ==
    SelectSeq(tensors,
              LAMBDA t : ~IsDirect(t, prefix) /\ NextPrefix(t, prefix) = group_name)

\* full_prefix = f"{prefix}.{group_name}"
FullPrefix(prefix, group_name) == prefix \o <<DOT>> \o group_name

\* build_subtree raises: a recursive call does, or result.sort does
RECURSIVE build_subtree_raises(_, _)
build_subtree_raises(tensors, prefix) ==
    LET group_names == GroupNames(tensors, prefix)
    IN \/ \E i \in 1..Len(group_names) :
             build_subtree_raises(GroupBucket(tensors, prefix, group_names[i]),
                                  FullPrefix(prefix, group_names[i]))
       \/ SortRaises(DirectTensors(tensors, prefix)
                     \o [i \in 1..Len(group_names) |-> [name |-> group_names[i]]])

\* the list build_subtree returns, when it returns
RECURSIVE build_subtree(_, _)
build_subtree(tensors, prefix) ==
    LET direct_tensors == DirectTensors(tensors, prefix)
        group_names == GroupNames(tensors, prefix)
        GroupOf(group_name) ==
            LET group_tensors == GroupBucket(tensors, prefix, group_name)
            IN GroupNode(group_name,
                         build_subtree(group_tensors,
                                       FullPrefix(prefix, group_name)),
                         FALSE,
                         GroupTensorCount(group_tensors),
                         GroupTotalSize(group_tensors))
        result ==
            [i \in 1..Len(direct_tensors) |-> TensorNode(direct_tensors[i])]
            \o [i \in 1..Len(group_names) |-> GroupOf(group_names[i])]
    IN SortNodes(result)

\* the nodes build_tree appends for one key of root_map
RootEntryNodes(prefix, group_tensors) ==
    IF prefix = ROOT_KEY
    THEN [i \in 1..Len(group_tensors) |-> TensorNode(group_tensors[i])]
    ELSE LET sorted == SortByName(group_tensors)
         IN <<GroupNode(prefix, build_subtree(sorted, prefix), TRUE,
                        GroupTensorCount(sorted), GroupTotalSize(sorted))>>

\* mutant of RootBucket: root_map[prefix] = [tensor] instead of append
RootBucketOverwritten(tensors, prefix) ==
    LET bucket == SelectSeq(tensors, LAMBDA t : RootKey(t) = prefix)
    IN IF bucket = <<>> THEN <<>> ELSE <<bucket[Len(bucket)]>>

\* root_map[prefix] once the first loop of build_tree has run
RootBucket(tensors, prefix) ==
    SelectSeq(tensors, LAMBDA t : RootKey(t) = prefix)

\* the keys of root_map, in insertion order
RootKeys(tensors) ==
    FirstOccurrences([i \in 1..Len(tensors) |-> RootKey(tensors[i])])

\* build_tree raises: group_tensors.sort does for some key, or build_subtree,
\* or tree.sort
build_tree_raises(tensors) ==
    LET prefixes == RootKeys(tensors)
        group_keys == SelectSeq(prefixes, LAMBDA prefix : prefix # ROOT_KEY)
    IN \/ \E i \in 1..Len(group_keys) :
             LET group_tensors == RootBucket(tensors, group_keys[i])
             IN \/ SortRaises(group_tensors)
                \/ build_subtree_raises(SortByName(group_tensors), group_keys[i])
       \/ SortRaises(RootBucket(tensors, ROOT_KEY)
                     \o [i \in 1..Len(group_keys) |-> [name |-> group_keys[i]]])

\* the list build_tree returns, when it returns
build_tree(tensors) ==
    LET prefixes == RootKeys(tensors)
        tree == Flatten([i \in 1..Len(prefixes) |->
                            RootEntryNodes(prefixes[i],
                                           RootBucket(tensors, prefixes[i]))])
    IN SortNodes(tree)

\* mutant of MetadataGroup: expanded=True, as the top-level groups have
MetadataGroupExpanded(metadata) ==
    GroupNode(METADATA_GROUP_NAME,
              SortByName([i \in 1..Len(metadata) |-> MetadataNode(metadata[i])]),
              TRUE, 0, 0)

\* the metadata group of build_tree_mixed
MetadataGroup(metadata) ==
    GroupNode(METADATA_GROUP_NAME,
              SortByName([i \in 1..Len(metadata) |-> MetadataNode(metadata[i])]),
              FALSE, 0, 0)

\* mutant of build_tree_mixed: the whole result is sorted, metadata group included
build_tree_mixed_all_sorted(tensors, metadata) ==
    SortNodes((IF metadata # <<>> THEN <<MetadataGroup(metadata)>> ELSE <<>>)
              \o build_tree(tensors))

\* the list build_tree_mixed returns, when it returns
build_tree_mixed(tensors, metadata) ==
    (IF metadata # <<>> THEN <<MetadataGroup(metadata)>> ELSE <<>>)
    \o build_tree(tensors)

\* build_tree_mixed raises: metadata_children.sort does, or build_tree
build_tree_mixed_raises(tensors, metadata) ==
    SortRaises(metadata) \/ build_tree_raises(tensors)

-----------------------------------------------------------------------------
(* Reading a tree *)

ChildrenOf(node) == IF is_group(node) THEN node.children[1] ELSE <<>>

\* the nodes of a subtree, the root first
RECURSIVE SubtreeNodes(_)
SubtreeNodes(node) ==
    LET kids == ChildrenOf(node)
    IN <<node>> \o Flatten([i \in 1..Len(kids) |-> SubtreeNodes(kids[i])])

\* every node of a list of trees, at any depth
NodesOf(nodes) == Flatten([i \in 1..Len(nodes) |-> SubtreeNodes(nodes[i])])

\* the TensorInfo of every Tensor leaf among nodes, in order
TensorInfosOf(nodes) ==
    LET leaves == SelectSeq(nodes, is_tensor)
    IN [i \in 1..Len(leaves) |-> leaves[i].tensor_info[1]]

\* the TensorInfo of every Tensor leaf in the subtree of node
LeafTensors(node) == TensorInfosOf(SubtreeNodes(node))

Occurrences(s, x) == Cardinality({i \in 1..Len(s) : s[i] = x})

SameElements(s, t) ==
    /\ Len(s) = Len(t)
    /\ \A i \in 1..Len(s) : Occurrences(s, s[i]) = Occurrences(t, s[i])

\* non-decreasing natural-sort keys of the names
SortedByName(nodes) ==
    \A i, j \in 1..Len(nodes) : i < j => ~NameLess(nodes[j].name, nodes[i].name)

\* a Group all of whose children are Metadata leaves
IsMetadataGroup(node) ==
    /\ is_group(node)
    /\ ChildrenOf(node) # <<>>
    /\ \A i \in 1..Len(ChildrenOf(node)) : is_metadata(ChildrenOf(node)[i])

DistinctNames(tensors) ==
    \A i, j \in 1..Len(tensors) : tensors[i].name = tensors[j].name => i = j

IndexPermutations(n) ==
    {p \in [1..n -> 1..n] : \A i, j \in 1..n : p[i] = p[j] => i = j}

Permuted(s, p) == [i \in 1..Len(s) |-> s[p[i]]]

-----------------------------------------------------------------------------
(* loader.py: ModelLoader *)

\* num_elements = 1; for dim in shape: num_elements *= dim
RECURSIVE NumElements(_)
NumElements(shape) ==
    IF shape = <<>> THEN 1 ELSE Head(shape) * NumElements(Tail(shape))

\* mutant of BytesPerElem: "64" is looked for before "8"
BytesPerElemWideFirst(dtype) ==
    IF Contains(dtype, <<"1", "6">>) THEN 2
    ELSE IF Contains(dtype, <<"6", "4">>) THEN 8
    ELSE IF Contains(dtype, <<"8">>) THEN 1
    ELSE 4

\* bytes_per_elem of load_safetensors_file
BytesPerElem(dtype) ==
    IF Contains(dtype, <<"1", "6">>) THEN 2
    ELSE IF Contains(dtype, <<"8">>) THEN 1
    ELSE IF Contains(dtype, <<"6", "4">>) THEN 8
    ELSE 4

\* the TensorInfo load_safetensors_file appends for one key
SafetensorsTensor(raw) ==
    TensorInfo(raw.name, raw.dtype, raw.shape,
               NumElements(raw.shape) * BytesPerElem(raw.dtype),
               NumElements(raw.shape))

\* the MetadataInfo load_safetensors_file appends for one metadata item
SafetensorsMetadata(raw) == MetadataInfo(raw.name, raw.value, "string")

GGUF_VALUE_MAX == 100

GGUF_VALUE_KEPT == 97

\* val_str of load_gguf_file
GgufValue(val_str) ==
    IF Len(val_str) > GGUF_VALUE_MAX
    THEN SubSeq(val_str, 1, GGUF_VALUE_KEPT) \o <<".", ".", ".">>
    ELSE val_str

\* the MetadataInfo load_gguf_file appends for one field
GgufMetadata(raw) == MetadataInfo(raw.name, GgufValue(raw.value), raw.type)

\* the TensorInfo load_gguf_file appends for one tensor
GgufTensor(raw) ==
    TensorInfo(raw.name, raw.dtype, raw.shape, raw.n_bytes,
               NumElements(raw.shape))

SAFETENSORS == ".safetensors"

GGUF == ".gguf"

\* what decoding a whole file appends to self.metadata
FileMetadata(file) ==
    [i \in 1..Len(file.metadata) |->
        IF file.ext = SAFETENSORS THEN SafetensorsMetadata(file.metadata[i])
        ELSE GgufMetadata(file.metadata[i])]

\* what decoding a whole file appends to self.tensors
FileTensors(file) ==
    [i \in 1..Len(file.tensors) |->
        IF file.ext = SAFETENSORS THEN SafetensorsTensor(file.tensors[i])
        ELSE GgufTensor(file.tensors[i])]

Prefix(s, n) == SubSeq(s, 1, IF n < 0 THEN 0 ELSE IF n > Len(s) THEN Len(s) ELSE n)

\* mutant of DedupByName: the last record of a name replaces the earlier one
RECURSIVE DedupByNameLastWins(_)
DedupByNameLastWins(tensors) ==
    IF tensors = <<>> THEN <<>>
    ELSE LET front == SubSeq(tensors, 1, Len(tensors) - 1)
             t == tensors[Len(tensors)]
             kept == DedupByNameLastWins(front)
         IN IF \E i \in 1..Len(kept) : kept[i].name = t.name
            THEN [i \in 1..Len(kept) |->
                     IF kept[i].name = t.name THEN t ELSE kept[i]]
            ELSE Append(kept, t)

\* list(unique_tensors.values()): the first record of each name, in the order
\* the names were first met
RECURSIVE DedupByName(_)
DedupByName(tensors) ==
    IF tensors = <<>> THEN <<>>
    ELSE LET front == SubSeq(tensors, 1, Len(tensors) - 1)
             t == tensors[Len(tensors)]
             kept == DedupByName(front)
         IN IF \E i \in 1..Len(kept) : kept[i].name = t.name
            THEN kept ELSE Append(kept, t)

\* sum(t.num_elements for t in self.tensors)
TotalParameters(tensors) == SumNumElements(tensors)

-----------------------------------------------------------------------------
(* utils.py: format_size.  A Python int n >= 0 is the sequence of its      *)
(* digits in base 1024, the least significant first, with no leading zero  *)
(* digit (0 is the empty sequence); a float is such a sequence d with the  *)
(* number k of its digits that lie after the point: the sum of             *)
(* d[i] * 1024^(i-1-k).  Every int of the model has at most 53 significant *)
(* bits, so float(n) and the divisions by 1024.0 are exact.                *)

\* drop the leading (most significant) zero digits
RECURSIVE Normalize(_)
Normalize(d) ==
    IF d = <<>> THEN <<>>
    ELSE IF d[Len(d)] = 0 THEN Normalize(SubSeq(d, 1, Len(d) - 1))
    ELSE d

\* float(size_bytes) raises OverflowError: n >= 2^1024 - 2^970, the ints
\* that round to 2^1024 or lie above it (2^1024 is 16 * 1024^102)
FloatOverflows(n) ==
    \/ Len(n) > 103
    \/ Len(n) = 103 /\ n[103] >= 16
    \/ Len(n) = 103 /\ n[103] = 15 /\ \A i \in 98..102 : n[i] = 1023

\* units = ["B", "KB", "MB", "GB"]
UNITS == << <<"B">>, <<"K", "B">>, <<"M", "B">>, <<"G", "B">> >>

\* the while loop: size /= 1024.0 moves the point one digit up, as long as
\* size >= 1024.0 (two digits or more before the point) and a unit remains
RECURSIVE UnitLoop(_, _)
UnitLoop(d, unit_idx) ==
    IF Len(d) - unit_idx >= 2 /\ unit_idx < Len(UNITS) - 1
    THEN UnitLoop(d, unit_idx + 1)
    ELSE unit_idx

\* the digits of c * d, one digit longer than d (c < 1024)
RECURSIVE MulSmallFrom(_, _, _, _)
MulSmallFrom(d, c, i, carry) ==
    IF i > Len(d) THEN <<carry>>
    ELSE LET cur == d[i] * c + carry
         IN <<cur % 1024>> \o MulSmallFrom(d, c, i + 1, cur \div 1024)

MulSmall(d, c) == MulSmallFrom(d, c, 1, 0)

\* n + 1
RECURSIVE AddOne(_)
AddOne(n) ==
    IF n = <<>> THEN <<1>>
    ELSE IF n[1] < 1023 THEN <<n[1] + 1>> \o Tail(n)
    ELSE <<0>> \o AddOne(Tail(n))

\* n divided by 10: q the quotient with the digits in place, r the remainder
RECURSIVE DivMod10From(_, _, _)
DivMod10From(n, i, rem) ==
    IF i = 0 THEN [q |-> <<>>, r |-> rem]
    ELSE LET cur == rem * 1024 + n[i]
             rest == DivMod10From(n, i - 1, cur % 10)
         IN [q |-> Append(rest.q, cur \div 10), r |-> rest.r]

DivMod10(n) == DivMod10From(n, Len(n), 0)

DecimalDigit(v) ==
    CASE v = 0 -> "0" [] v = 1 -> "1" [] v = 2 -> "2" [] v = 3 -> "3"
      [] v = 4 -> "4" [] v = 5 -> "5" [] v = 6 -> "6" [] v = 7 -> "7"
      [] v = 8 -> "8" [] v = 9 -> "9"

\* str(n) for an int n >= 0
RECURSIVE Decimal(_)
Decimal(n) ==
    IF n = <<>> THEN <<"0">>
    ELSE LET dm == DivMod10(n)
             q == Normalize(dm.q)
         IN IF q = <<>> THEN <<DecimalDigit(dm.r)>>
            ELSE Append(Decimal(q), DecimalDigit(dm.r))

\* f"{size:.1f}" for the float with digits d, k of them after the point: the
\* value rounded to tenths, ties to the even tenth
FormatOneDecimal(d, k) ==
    LET whole == SubSeq(d, k + 1, Len(d))
        tenfold == MulSmall(SubSeq(d, 1, k), 10)
        tenths == tenfold[k + 1]
        rest == SubSeq(tenfold, 1, k)
        above_half ==
            \/ rest[k] > 512
            \/ rest[k] = 512 /\ \E i \in 1..(k - 1) : rest[i] # 0
        at_half == rest[k] = 512 /\ \A i \in 1..(k - 1) : rest[i] = 0
        up == above_half \/ (at_half /\ tenths % 2 = 1)
        rounded == IF up THEN tenths + 1 ELSE tenths
    IN IF rounded = 10
       THEN Decimal(AddOne(whole)) \o <<".", "0">>
       ELSE Decimal(whole) \o <<".", DecimalDigit(rounded)>>

\* format_size raises: float(size_bytes) does
format_size_raises(size_bytes) == FloatOverflows(size_bytes)

\* the str format_size returns, when it returns
format_size(size_bytes) ==
    LET unit_idx == UnitLoop(size_bytes, 0)
    IN IF unit_idx = 0
       THEN Decimal(size_bytes) \o <<" ">> \o UNITS[unit_idx + 1]
       ELSE FormatOneDecimal(size_bytes, unit_idx) \o <<" ">> \o UNITS[unit_idx + 1]

-----------------------------------------------------------------------------
(* app.py: SafetensorsExplorerApp *)

\* mutant of RebuiltWidget: tree_widget.clear() is left out
RebuiltWidgetNotCleared(shown, nodes) == shown \o nodes

\* tree_widget.clear(), then add_node_to_tree for each node: what the widget
\* shows after build_tree, from what it showed before and the new nodes
RebuiltWidget(shown, nodes) == nodes

\* filtered_tensors / filtered_metadata of app.build_tree
Filtered(records, filter_text) ==
    IF filter_text # <<>>
    THEN SelectSeq(records,
                   LAMBDA r : Contains(Lower(r.name), Lower(filter_text)))
    ELSE records

\* SafetensorsExplorerApp.build_tree(filter_text), on the lists given
AppBuildTree(tensors, metadata, filter_text) ==
    LET nodes == build_tree_mixed(Filtered(tensors, filter_text),
                                  Filtered(metadata, filter_text))
    IN /\ widget_tree' = RebuiltWidget(widget_tree, nodes)
       /\ h_built' =
             IF h_built[filter_text] = None
             THEN [h_built EXCEPT ![filter_text] = Some(widget_tree')]
             ELSE h_built

\* on_mount once self.loader.load() has returned: the rest of load_files,
\* then build_tree()
Mount ==
    /\ app_pc = "mounting"
    /\ load_pc = "done"
    /\ app_tensors' = l_tensors
    /\ app_metadata' = l_metadata
    /\ app_total' = total_parameters
    /\ AppBuildTree(l_tensors, l_metadata, <<>>)
    /\ app_pc' = "ready"
    /\ UNCHANGED <<search_value, search_active, load_vars, tree_vars, fn_vars>>

\* action_toggle_search
ToggleSearch ==
    /\ app_pc = "ready"
    /\ search_active' = TRUE
    /\ UNCHANGED <<app_pc, app_tensors, app_metadata, app_total, search_value,
                   widget_tree, h_built, load_vars, tree_vars, fn_vars>>

\* on_input_changed for the search input, which shows while search-active
InputChanged(value) ==
    /\ app_pc = "ready"
    /\ search_active
    /\ search_value' = value
    /\ AppBuildTree(app_tensors, app_metadata, value)
    /\ UNCHANGED <<app_pc, app_tensors, app_metadata, app_total,
                   search_active, load_vars, tree_vars, fn_vars>>

\* action_clear_search
ClearSearch ==
    /\ app_pc = "ready"
    /\ search_active' = FALSE
    /\ search_value' = <<>>
    /\ AppBuildTree(app_tensors, app_metadata, <<>>)
    /\ UNCHANGED <<app_pc, app_tensors, app_metadata, app_total,
                   load_vars, tree_vars, fn_vars>>

-----------------------------------------------------------------------------
(* Inputs: names over ".", "_", letters of both cases and digits, with   *)
(* root-level names, nested names, names that tie under the natural-sort *)
(* key, empty segments and the segment "_root"; and what the two         *)
(* decoders can find in a file.                                          *)

\* the sequences over S of length n
SeqsOfLen(S, n) == [1..n -> S]

\* the sequences over S of length at most n
SeqsUpTo(S, n) == UNION {SeqsOfLen(S, k) : k \in 0..n}

F32 == <<"F", "3", "2">>

\* a float32 tensor of shape (n,)
Tensor1D(name, n) == TensorInfo(name, F32, <<n>>, 4 * n, n)

TreeTensorPool ==
    { Tensor1D(<<>>, 1),
      Tensor1D(<<"c">>, 2),
      Tensor1D(<<"C">>, 3),
      Tensor1D(<<"w", "2">>, 4),
      Tensor1D(<<"w", "1", "1">>, 5),
      Tensor1D(<<"a", ".", "w">>, 6),
      Tensor1D(<<"a", ".", "b">>, 7),
      Tensor1D(<<"A", ".", "w">>, 8),
      Tensor1D(<<"a", ".", "b", ".", "w">>, 9),
      Tensor1D(<<"a", ".", "b", ".", "v">>, 10),
      Tensor1D(<<"a", ".", "b", ".", "c", ".", "w">>, 11),
      Tensor1D(<<"a", ".">>, 12),
      Tensor1D(<<".", "a">>, 13),
      Tensor1D(<<"a", ".", ".", "w">>, 14),
      Tensor1D(<<"_", "r", "o", "o", "t">>, 15),
      Tensor1D(<<"_", "r", "o", "o", "t", ".", "w">>, 16),
      Tensor1D(<<SUPER2>>, 17),
      Tensor1D(<<ARABIC3>>, 18),
      Tensor1D(<<"a", ".", "b", ".", ARABIC3, ".", "w">>, 19) }

TreeMetadataPool ==
    { MetadataInfo(<<"k">>, <<"x">>, "string"),
      MetadataInfo(<<"k">>, <<"y">>, "string"),
      MetadataInfo(<<"K", "2">>, <<"x">>, "string") }

F16 == <<"F", "1", "6">>

F64 == <<"F", "6", "4">>

I8 == <<"I", "8">>

RawTensor(name, dtype, shape, n_bytes) ==
    [name |-> name, dtype |-> dtype, shape |-> shape, n_bytes |-> n_bytes]

RawTensorPool ==
    { RawTensor(<<"a", ".", "w">>, F32, <<2>>, 8),
      RawTensor(<<"a", ".", "w">>, F16, <<3>>, 6),
      RawTensor(<<"c">>, I8, <<2, 2>>, 4) }

RawMetadata(name, value, type) == [name |-> name, value |-> value, type |-> type]

RawMetadataPool == { RawMetadata(<<"k">>, <<"x">>, "UINT32") }

\* the files that hold at most nm metadata items and nt tensors
FilePool(nm, nt) ==
    [ext : {SAFETENSORS, GGUF},
     metadata : SeqsUpTo(RawMetadataPool, nm),
     tensors : SeqsUpTo(RawTensorPool, nt)]

\* how many records a decoder has appended when it raises; NO_ERROR if it
\* returns
NO_ERROR == -1

Outcomes(file) == {NO_ERROR} \cup 0..(Len(file.metadata) + Len(file.tensors))

AppTensorPool ==
    { Tensor1D(<<"c">>, 2),
      Tensor1D(<<"w", "2">>, 4),
      Tensor1D(<<"a", ".", "w">>, 6),
      Tensor1D(<<"a", ".", "b">>, 7),
      Tensor1D(<<"A", ".", "w">>, 8) }

AppMetadataPool ==
    { MetadataInfo(<<"k">>, <<"x">>, "string"),
      MetadataInfo(<<"K", "2">>, <<"x">>, "string") }

\* "a", "W", "2": the texts typed into the search input
FilterTexts == { <<"a">>, <<"W">>, <<"2">> }

-----------------------------------------------------------------------------
(* The three parts at rest, for the specifications that leave them out *)

TreeIdle ==
    /\ in_tensors = <<>> /\ in_metadata = <<>>
    /\ tree_pc = "idle" /\ tree_result = <<>>

LoadIdle ==
    /\ files_n = 0 /\ file_idx = 0 /\ load_pc = "idle"
    /\ l_tensors = <<>> /\ l_metadata = <<>> /\ total_parameters = 0
    /\ h_files = <<>>
    /\ load_calls = 0 /\ h_loads = <<>>

AppIdle ==
    /\ app_pc = "idle"
    /\ app_tensors = <<>> /\ app_metadata = <<>> /\ app_total = 0
    /\ search_value = <<>> /\ search_active = FALSE
    /\ widget_tree = <<>>
    /\ h_built = [text \in FilterTexts \cup {<<>>} |-> None]

FnIdle == fn_pc = "idle" /\ fn_args = <<>> /\ fn_result = <<>>

\* the app constructed, on_mount not yet run
AppConstructed ==
    /\ app_pc = "mounting"
    /\ app_tensors = <<>> /\ app_metadata = <<>> /\ app_total = 0
    /\ search_value = <<>> /\ search_active = FALSE
    /\ widget_tree = <<>>
    /\ h_built = [text \in FilterTexts \cup {<<>>} |-> None]

-----------------------------------------------------------------------------
(* SpecTree: build_tree_mixed applied to every input within the bounds *)

TreeInit ==
    /\ LoadIdle
    /\ AppIdle
    /\ FnIdle
    /\ \E nt \in 0..MaxRecords : \E nm \in 0..(MaxRecords - nt) :
          /\ in_tensors \in SeqsOfLen(TreeTensorPool, nt)
          /\ in_metadata \in SeqsOfLen(TreeMetadataPool, nm)
    /\ tree_pc = "input"
    /\ tree_result = <<>>

\* one call: tree_pc is "built" and tree_result the list returned, or tree_pc
\* is "raised" when a sort of the builder raised
BuildTreeMixed ==
    /\ tree_pc = "input"
    /\ IF build_tree_mixed_raises(in_tensors, in_metadata)
       THEN tree_pc' = "raised" /\ tree_result' = <<>>
       ELSE /\ tree_result' = build_tree_mixed(in_tensors, in_metadata)
            /\ tree_pc' = "built"
    /\ UNCHANGED <<in_tensors, in_metadata, load_vars, app_vars, fn_vars>>

TreeNext == BuildTreeMixed

SpecTree == TreeInit /\ [][TreeNext]_vars

-----------------------------------------------------------------------------
(* SpecLoad: ModelLoader(files).load() *)

LoadInit ==
    /\ TreeIdle
    /\ AppConstructed
    /\ FnIdle
    /\ files_n \in 0..MaxFiles
    /\ file_idx = 0 /\ load_pc = "files"
    /\ l_tensors = <<>> /\ l_metadata = <<>> /\ total_parameters = 0
    /\ h_files = <<>>
    /\ load_calls = 1 /\ h_loads = <<>>

\* every TensorInfo appended so far, in order
Decoded == Flatten([i \in 1..Len(h_files) |-> h_files[i].tensors])

\* every MetadataInfo appended so far, in order
DecodedMetadata == Flatten([i \in 1..Len(h_files) |-> h_files[i].metadata])

\* mutant of LoadFile: the try statement is around the loop, so the first
\* error ends the batch
LoadFileAbortOnError(file, raised_after) ==
    LET n == IF raised_after = NO_ERROR
             THEN Len(file.metadata) + Len(file.tensors) ELSE raised_after
        metadata == Prefix(FileMetadata(file), n)
        tensors == Prefix(FileTensors(file), n - Len(file.metadata))
    IN /\ load_pc = "files"
       /\ file_idx < files_n
       /\ l_metadata' = l_metadata \o metadata
       /\ l_tensors' = l_tensors \o tensors
       /\ file_idx' = IF raised_after = NO_ERROR THEN file_idx + 1 ELSE files_n
       /\ h_files' =
             Append(h_files,
                    [outcome |-> IF raised_after = NO_ERROR THEN "ok" ELSE "error",
                     tensors |-> tensors, metadata |-> metadata])
       /\ UNCHANGED <<files_n, load_pc, total_parameters, load_calls, h_loads,
                      tree_vars, app_vars, fn_vars>>

\* one pass of the for loop of load(): the try block and its except clause.
\* The decoder appends its records one by one, metadata first, and the error,
\* if any, is caught after `raised_after` of them
LoadFile(file, raised_after) ==
    LET n == IF raised_after = NO_ERROR
             THEN Len(file.metadata) + Len(file.tensors) ELSE raised_after
        metadata == Prefix(FileMetadata(file), n)
        tensors == Prefix(FileTensors(file), n - Len(file.metadata))
    IN /\ load_pc = "files"
       /\ file_idx < files_n
       /\ l_metadata' = l_metadata \o metadata
       /\ l_tensors' = l_tensors \o tensors
       /\ file_idx' = file_idx + 1
       /\ h_files' =
             Append(h_files,
                    [outcome |-> IF raised_after = NO_ERROR THEN "ok" ELSE "error",
                     tensors |-> tensors, metadata |-> metadata])
       /\ UNCHANGED <<files_n, load_pc, total_parameters, load_calls, h_loads,
                      tree_vars, app_vars, fn_vars>>

\* mutant of FinishLoad: the total is taken before the deduplication
FinishLoadTotalFirst ==
    /\ load_pc = "files"
    /\ file_idx = files_n
    /\ total_parameters' = TotalParameters(l_tensors)
    /\ l_tensors' = DedupByName(l_tensors)
    /\ load_pc' = "done"
    /\ h_loads' = Append(h_loads, [tensors |-> l_tensors', metadata |-> l_metadata,
                                   total_parameters |-> total_parameters'])
    /\ UNCHANGED <<files_n, file_idx, l_metadata, h_files, load_calls,
                   tree_vars, app_vars, fn_vars>>

\* mutant of FinishLoad: the metadata is deduplicated by name as the tensors are
FinishLoadDedupMetadata ==
    /\ load_pc = "files"
    /\ file_idx = files_n
    /\ l_tensors' = DedupByName(l_tensors)
    /\ l_metadata' = DedupByName(l_metadata)
    /\ total_parameters' = TotalParameters(l_tensors')
    /\ load_pc' = "done"
    /\ h_loads' = Append(h_loads, [tensors |-> l_tensors', metadata |-> l_metadata',
                                   total_parameters |-> total_parameters'])
    /\ UNCHANGED <<files_n, file_idx, h_files, load_calls,
                   tree_vars, app_vars, fn_vars>>

\* the rest of load(): the deduplication and the total
FinishLoad ==
    /\ load_pc = "files"
    /\ file_idx = files_n
    /\ l_tensors' = DedupByName(l_tensors)
    /\ total_parameters' = TotalParameters(l_tensors')
    /\ load_pc' = "done"
    /\ h_loads' = Append(h_loads, [tensors |-> l_tensors', metadata |-> l_metadata,
                                   total_parameters |-> total_parameters'])
    /\ UNCHANGED <<files_n, file_idx, l_metadata, h_files, load_calls,
                   tree_vars, app_vars, fn_vars>>

LoadNext ==
    \/ Mount
    \/ \E file \in FilePool(MaxLoadedMetadata - Len(DecodedMetadata),
                             MaxLoadedTensors - Len(Decoded)) :
          \E raised_after \in Outcomes(file) : LoadFile(file, raised_after)
    \/ FinishLoad

SpecLoad == LoadInit /\ [][LoadNext]_vars

-----------------------------------------------------------------------------
(* SpecReload: ModelLoader(files).load(), then load() again on the same    *)
(* loader with the files unchanged                                         *)

\* a further call of load() on the loader: __init__ is not run again, so the
\* lists are as the call before left them
LoadAgain ==
    /\ load_pc = "done"
    /\ load_calls < MaxLoadCalls
    /\ load_calls' = load_calls + 1
    /\ load_pc' = "files"
    /\ file_idx' = 0
    /\ UNCHANGED <<files_n, l_tensors, l_metadata, total_parameters, h_files,
                   h_loads, tree_vars, app_vars, fn_vars>>

\* the first call decodes files of any content
LoadFirstTime ==
    /\ load_calls = 1
    /\ \E file \in FilePool(MaxLoadedMetadata - Len(DecodedMetadata),
                             MaxLoadedTensors - Len(Decoded)) :
          \E raised_after \in Outcomes(file) : LoadFile(file, raised_after)

\* the files that hold exactly nm metadata items and nt tensors
FilesOfSize(nm, nt) ==
    [ext : {SAFETENSORS, GGUF},
     metadata : SeqsOfLen(RawMetadataPool, nm),
     tensors : SeqsOfLen(RawTensorPool, nt)]

\* a later call decodes the same files: the file at each place of the list
\* gives the records it gave the first time, and raises if it raised then
LoadSameFile ==
    /\ load_calls > 1
    /\ file_idx < files_n
    /\ LET seen == h_files[file_idx + 1]
           n == Len(seen.metadata) + Len(seen.tensors)
       IN \E file \in FilesOfSize(Len(seen.metadata), Len(seen.tensors)) :
             \E raised_after \in IF seen.outcome = "ok" THEN {NO_ERROR} ELSE {n} :
                /\ LoadFile(file, raised_after)
                /\ h_files'[Len(h_files')] = seen

ReloadNext ==
    \/ LoadFirstTime
    \/ LoadSameFile
    \/ FinishLoad
    \/ LoadAgain

SpecReload == LoadInit /\ [][ReloadNext]_vars

-----------------------------------------------------------------------------
(* Spec: the app from the return of self.loader.load() on: on_mount builds  *)
(* the tree, then the search input and the clear-search key rebuild it.     *)

\* the loader after load() of one file: tensors of pairwise distinct names,
\* their total
Init ==
    /\ TreeIdle
    /\ AppConstructed
    /\ FnIdle
    /\ l_tensors \in {ts \in SeqsUpTo(AppTensorPool, MaxAppTensors) :
                         DistinctNames(ts)}
    /\ l_metadata \in SeqsUpTo(AppMetadataPool, MaxAppMetadata)
    /\ total_parameters = TotalParameters(l_tensors)
    /\ load_pc = "done"
    /\ files_n = 1 /\ file_idx = 1
    /\ h_files = <<[outcome |-> "ok", tensors |-> l_tensors,
                    metadata |-> l_metadata]>>
    /\ load_calls = 1
    /\ h_loads = <<[tensors |-> l_tensors, metadata |-> l_metadata,
                    total_parameters |-> total_parameters]>>

Next ==
    \/ Mount
    \/ ToggleSearch
    \/ \E value \in FilterTexts \cup {<<>>} : InputChanged(value)
    \/ ClearSearch

Spec == Init /\ [][Next]_vars

-----------------------------------------------------------------------------
(* SpecSize: the TensorInfo load_safetensors_file builds for one key *)

\* str(tensor.get_dtype()) of the safetensors dtypes, and two tags that hold
\* two of the substrings the heuristic looks for
DtypePool ==
    { <<"B", "O", "O", "L">>, <<"U", "8">>, I8,
      <<"F", "8", "_", "E", "5", "M", "2">>, <<"F", "8", "_", "E", "4", "M", "3">>,
      <<"I", "1", "6">>, <<"U", "1", "6">>, F16, <<"B", "F", "1", "6">>,
      <<"I", "3", "2">>, <<"U", "3", "2">>, F32,
      F64, <<"I", "6", "4">>, <<"U", "6", "4">>,
      <<"X", "1", "6", "8">>, <<"X", "8", "6", "4">> }

\* tensor.get_shape(): up to MaxDims dimensions
DimPool == {0, 2, 10, 100}

ShapePool == SeqsUpTo(DimPool, MaxDims)

SizeInit ==
    /\ TreeIdle
    /\ LoadIdle
    /\ AppIdle
    /\ fn_pc = "call"
    /\ fn_args \in {RawTensor(<<"w">>, dtype, shape, 0) :
                       dtype \in DtypePool, shape \in ShapePool}
    /\ fn_result = <<>>

\* the body of the loop over f.keys() for one key
DecodeSafetensorsKey ==
    /\ fn_pc = "call"
    /\ fn_result' = SafetensorsTensor(fn_args)
    /\ fn_pc' = "returned"
    /\ UNCHANGED <<fn_args, tree_vars, load_vars, app_vars>>

SizeNext == DecodeSafetensorsKey

SpecSize == SizeInit /\ [][SizeNext]_vars

-----------------------------------------------------------------------------
(* SpecKey: sorted(texts, key=natural_sort_key), as every sort of tree.py  *)
(* uses natural_sort_key                                                   *)

LAYER == <<"l", "a", "y", "e", "r">>

\* texts with digit runs, letters of both cases, leading zeros, and runs of
\* characters that str.isdigit() accepts and [0-9] does not match
KeyTextPool ==
    { <<>>, <<"a">>, <<"A">>, <<"b">>, <<"2">>, <<"1", "0">>, <<"0", "2">>,
      <<"a", "2">>, <<"a", "1", "0">>, <<"A", "1", "0">>, <<"a", "2", "b">>,
      LAYER \o <<"1">>, LAYER \o <<"2">>, LAYER \o <<"1", "0">>,
      <<SUPER2>>, <<ARABIC3>>, <<"a", ARABIC3>>, <<"a", "2", ARABIC3>> }

\* sorted(texts, key=natural_sort_key), when it returns
SortTexts(texts) ==
    LET sorted == SortByName([i \in 1..Len(texts) |-> [name |-> texts[i]]])
    IN [i \in 1..Len(sorted) |-> sorted[i].name]

\* sorted(texts, key=natural_sort_key) raises
SortTextsRaises(texts) ==
    SortRaises([i \in 1..Len(texts) |-> [name |-> texts[i]]])

KeyInit ==
    /\ TreeIdle
    /\ LoadIdle
    /\ AppIdle
    /\ fn_pc = "call"
    /\ fn_args \in SeqsUpTo(KeyTextPool, MaxKeyTexts)
    /\ fn_result = <<>>

SortByNaturalKey ==
    /\ fn_pc = "call"
    /\ IF SortTextsRaises(fn_args)
       THEN fn_pc' = "raised" /\ fn_result' = <<>>
       ELSE fn_pc' = "returned" /\ fn_result' = SortTexts(fn_args)
    /\ UNCHANGED <<fn_args, tree_vars, load_vars, app_vars>>

KeyNext == SortByNaturalKey

SpecKey == KeyInit /\ [][KeyNext]_vars

-----------------------------------------------------------------------------
(* SpecFormat: format_size(size_bytes) *)

\* digits at and around the rounding points of a tenth
LimbPool == {0, 1, 256, 512, 768, 1023}

\* the ints of up to n digits over LimbPool
IntsUpTo(n) == {Normalize(d) : d \in SeqsUpTo(LimbPool, n)}

\* n * 1024^z
ShiftLeft(n, z) == IF n = <<>> THEN <<>> ELSE [i \in 1..z |-> 0] \o n

\* c * 2^1020 (c < 1024): 2^1020 is 1024^102
HugeInt(c) == ShiftLeft(<<c>>, 102)

\* byte sizes from 0 up to the TB range and beyond, and two ints above the
\* largest float: 2^1024 and 2^1030
SizePool ==
    {ShiftLeft(n, z) : n \in IntsUpTo(MaxLimbs), z \in 0..2}
        \cup {HugeInt(16), ShiftLeft(HugeInt(1), 1)}

FormatInit ==
    /\ TreeIdle
    /\ LoadIdle
    /\ AppIdle
    /\ fn_pc = "call"
    /\ fn_args \in SizePool
    /\ fn_result = <<>>

FormatSize ==
    /\ fn_pc = "call"
    /\ IF format_size_raises(fn_args)
       THEN fn_pc' = "raised" /\ fn_result' = <<>>
       ELSE fn_pc' = "returned" /\ fn_result' = format_size(fn_args)
    /\ UNCHANGED <<fn_args, tree_vars, load_vars, app_vars>>

FormatNext == FormatSize

SpecFormat == FormatInit /\ [][FormatNext]_vars

-----------------------------------------------------------------------------
(* Claims about the tree builder (SpecTree) *)

\* C1: in the result of build_tree_mixed every Group, at any depth, has
\* tensor_count equal to the number of Tensor leaves of its subtree and
\* total_size equal to the sum of their size_bytes (0 and 0 for the metadata
\* group).
C1_GroupAggregatesMatchSubtree ==
    tree_pc = "built" =>
        \A g \in Range(NodesOf(tree_result)) :
            is_group(g) =>
                /\ g.tensor_count = Len(LeafTensors(g))
                /\ g.total_size = SumSizeBytes(LeafTensors(g))
                /\ IsMetadataGroup(g) => g.tensor_count = 0 /\ g.total_size = 0

\* C1 witness: a top-level group of three tensors holding a sub-group of two
C1_Witness ==
    /\ tree_pc = "built"
    /\ \E g \in Range(tree_result) :
          /\ is_group(g) /\ g.tensor_count = 3
          /\ \E h \in Range(ChildrenOf(g)) :
                is_group(h) /\ h.tensor_count = 2 /\ h.total_size > 0

\* C5: every tensor whose name has no dot is a Tensor leaf of the top level,
\* and every tensor whose name has a dot lies under the top-level Group named
\* by its first segment, whatever that segment is.
C5_PlacedByFirstSegment ==
    tree_pc = "built" =>
        \A i \in 1..Len(in_tensors) :
            LET t == in_tensors[i]
                parts == Split(t.name)
            IN IF Len(parts) = 1
               THEN \E n \in Range(tree_result) : n = TensorNode(t)
               ELSE \E g \in Range(tree_result) :
                       /\ is_group(g) /\ g.name = parts[1]
                       /\ \E k \in 1..Len(LeafTensors(g)) : LeafTensors(g)[k] = t

\* every list of siblings of the result, the top level without the metadata
\* group included
SiblingLists(nodes) ==
    {ChildrenOf(g) : g \in {n \in Range(NodesOf(nodes)) : is_group(n)}}
        \cup {SelectSeq(nodes, LAMBDA n : ~IsMetadataGroup(n))}

\* C6: siblings are in non-decreasing natural-sort order of their names, and
\* the order never depends on the order of the input: for tensors of pairwise
\* distinct names, every permutation of the tensor list gives the same
\* ordered tree.
C6_OrderIndependentOfInputOrder ==
    tree_pc = "built" /\ DistinctNames(in_tensors) =>
        /\ \A sibs \in SiblingLists(tree_result) : SortedByName(sibs)
        /\ \A p \in IndexPermutations(Len(in_tensors)) :
              build_tree_mixed(Permuted(in_tensors, p), in_metadata)
                  = tree_result

\* C7: the result holds a metadata Group iff the metadata list is not empty;
\* there is then exactly one in the whole tree, it is the first element of
\* the result, and the nodes after it are in natural-sort order.
C7_MetadataGroupPinnedFirst ==
    tree_pc = "built" =>
        LET all == NodesOf(tree_result)
            metas == {i \in 1..Len(all) : IsMetadataGroup(all[i])}
            rest == IF in_metadata = <<>> THEN tree_result ELSE Tail(tree_result)
        IN /\ (in_metadata # <<>>) <=> (metas # {})
           /\ in_metadata # <<>> =>
                 /\ Cardinality(metas) = 1
                 /\ IsMetadataGroup(tree_result[1])
                 /\ tree_result[1].name = METADATA_GROUP_NAME
           /\ SortedByName(rest)
           /\ \A n \in Range(rest) : ~IsMetadataGroup(n)

\* C7 witness: a metadata group followed by a group and a root-level leaf
\* whose names both sort before the metadata group's name
C7_Witness ==
    /\ tree_pc = "built"
    /\ Len(tree_result) = 3
    /\ IsMetadataGroup(tree_result[1])
    /\ is_group(tree_result[2]) /\ is_tensor(tree_result[3])
    /\ NameLess(tree_result[3].name, tree_result[1].name)

\* C9: when the input names are pairwise distinct, the Tensor leaves of the
\* result are exactly the input tensors, each once, each carrying its
\* TensorInfo; and ["a.w", "a.b", "c"] gives one group "a" with the leaves
\* "a.w" and "a.b", and the root-level leaf "c" (beside the metadata group,
\* when there is metadata).
C9_EveryTensorExactlyOneLeaf ==
    tree_pc = "built" /\ DistinctNames(in_tensors) =>
        LET leaves == SelectSeq(NodesOf(tree_result), is_tensor)
        IN /\ SameElements(TensorInfosOf(leaves), in_tensors)
           /\ \A i \in 1..Len(leaves) :
                 leaves[i] = TensorNode(leaves[i].tensor_info[1])
           /\ [i \in 1..Len(in_tensors) |-> in_tensors[i].name]
                 = << <<"a", ".", "w">>, <<"a", ".", "b">>, <<"c">> >> =>
                 LET tensor_part ==
                         SelectSeq(tree_result, LAMBDA n : ~IsMetadataGroup(n))
                 IN /\ Len(tensor_part) = 2
                    /\ is_group(tensor_part[1]) /\ tensor_part[1].name = <<"a">>
                    /\ SameElements(ChildrenOf(tensor_part[1]),
                                    <<TensorNode(in_tensors[1]),
                                      TensorNode(in_tensors[2])>>)
                    /\ tensor_part[2] = TensorNode(in_tensors[3])

\* C9 witness: the tree of ["a.w", "a.b", "c"]
C9_Witness ==
    /\ tree_pc = "built"
    /\ [i \in 1..Len(in_tensors) |-> in_tensors[i].name]
          = << <<"a", ".", "w">>, <<"a", ".", "b">>, <<"c">> >>
    /\ Len(SelectSeq(NodesOf(tree_result), is_tensor)) = 3

-----------------------------------------------------------------------------
(* Claims about the loader (SpecLoad) *)

\* the places of the decoded stream that hold the first record of their name
FirstOfName(stream) ==
    {i \in 1..Len(stream) : \A j \in 1..(i - 1) : stream[j].name # stream[i].name}

\* the sum of f over the finite set S of integers
RECURSIVE SumOver(_, _)
SumOver(S, f) ==
    IF S = {} THEN 0
    ELSE LET x == CHOOSE y \in S : TRUE IN f[x] + SumOver(S \ {x}, f)

\* C2: after load() no two records of loader.tensors share a name, and the
\* record kept for a name is the first one decoded with that name, in file
\* order, unchanged: loader.tensors is the decoded stream without the later
\* records of each name.
C2_FirstRecordOfEachNameKept ==
    load_pc = "done" =>
        /\ DistinctNames(l_tensors)
        /\ \A i \in FirstOfName(Decoded) : Decoded[i] \in Range(l_tensors)
        /\ \A t \in Range(l_tensors) :
              \E i \in FirstOfName(Decoded) : Decoded[i] = t
        /\ Len(l_tensors) = Cardinality(FirstOfName(Decoded))

\* C2 witness: two files decoded, a name met in both with different records
C2_Witness ==
    /\ load_pc = "done"
    /\ Len(h_files) = 2
    /\ \E t \in Range(h_files[1].tensors) : \E u \in Range(h_files[2].tensors) :
          t.name = u.name /\ t # u
    /\ Len(l_tensors) < Len(Decoded)

\* C3: after load() total_parameters is the sum of num_elements over the
\* deduplicated list: each decoded name counts once, with the num_elements of
\* its first record.
C3_TotalOverDeduplicated ==
    load_pc = "done" =>
        /\ total_parameters = SumNumElements(l_tensors)
        /\ total_parameters =
              SumOver(FirstOfName(Decoded),
                      [i \in 1..Len(Decoded) |-> Decoded[i].num_elements])

\* C3 witness: a name decoded twice with different element counts
C3_Witness ==
    /\ load_pc = "done"
    /\ \E i, j \in 1..Len(Decoded) :
          /\ i < j /\ Decoded[i].name = Decoded[j].name
          /\ Decoded[i].num_elements # Decoded[j].num_elements
    /\ total_parameters > 0

C8_MetadataNotDeduplicated ==
    /\ load_pc = "done" => l_metadata = DecodedMetadata
    /\ app_pc = "ready" /\ app_metadata # <<>> =>
          /\ IsMetadataGroup(widget_tree[1])
          /\ \A n \in Range(ChildrenOf(widget_tree[1])) :
                n = MetadataNode(n.metadata_info[1])
          /\ SameElements([i \in 1..Len(ChildrenOf(widget_tree[1])) |->
                              ChildrenOf(widget_tree[1])[i].metadata_info[1]],
                          DecodedMetadata)

\* C8 witness: two files gave an entry of the same name, and the metadata
\* group shows both
C8_Witness ==
    /\ app_pc = "ready"
    /\ Len(h_files) = 2
    /\ h_files[1].metadata # <<>> /\ h_files[2].metadata # <<>>
    /\ h_files[1].metadata[1].name = h_files[2].metadata[1].name
    /\ Len(ChildrenOf(widget_tree[1])) = Len(l_metadata)
    /\ Len(l_metadata) >= 2

-----------------------------------------------------------------------------
(* Claims about the app (Spec) *)

\* C10: a rebuild with a filter text shows the tree the first build with that
\* text showed, whatever was typed or cleared in between: the tree shown is
\* the tree of the loaded lists filtered by the current text, and no rebuild
\* changes the loaded lists.
C10_RebuildGivesSameTree ==
    app_pc = "ready" =>
        /\ h_built[search_value] = Some(widget_tree)
        /\ widget_tree = build_tree_mixed(Filtered(l_tensors, search_value),
                                          Filtered(l_metadata, search_value))
        /\ app_tensors = l_tensors /\ app_metadata = l_metadata
        /\ l_tensors = h_files[1].tensors /\ l_metadata = h_files[1].metadata

\* C10 witness: the unfiltered tree shown again after clear-search, once
\* every filter text has been typed and one of them has shown another tree
C10_Witness ==
    /\ app_pc = "ready"
    /\ search_value = <<>> /\ ~search_active
    /\ \A text \in FilterTexts : h_built[text] # None
    /\ \E text \in FilterTexts :
          h_built[text] # Some(widget_tree) /\ h_built[text] # Some(<<>>)

-----------------------------------------------------------------------------
(* More claims about the tree builder (SpecTree) *)

\* C11: build_tree_mixed returns on empty and on malformed input: with no
\* tensors and no metadata it returns the empty list, and when a tensor has
\* the empty name it returns a list that holds, at the top level, the Tensor
\* leaf of that tensor, named by the empty string.
C11_ReturnsOnEmptyAndMalformedInput ==
    /\ tree_pc # "input"
    /\ \/ in_tensors = <<>> /\ in_metadata = <<>>
       \/ \E i \in 1..Len(in_tensors) : in_tensors[i].name = <<>>
    => /\ tree_pc = "built"
       /\ in_tensors = <<>> /\ in_metadata = <<>> => tree_result = <<>>
       /\ \A i \in 1..Len(in_tensors) :
             in_tensors[i].name = <<>> =>
                \E n \in Range(tree_result) :
                    n = TensorNode(in_tensors[i]) /\ n.name = <<>>

\* the number of dots of a name
Dots(name) == Len(Split(name)) - 1

\* the pairs <<d, node>> for every node of a list of trees met d groups below
\* the level of the list
RECURSIVE NodesAtDepth(_, _)
NodesAtDepth(nodes, d) ==
    UNION {{<<d, nodes[i]>>} \cup NodesAtDepth(ChildrenOf(nodes[i]), d + 1) :
              i \in 1..Len(nodes)}

\* C12: the recursion of build_tree / build_subtree ends, and in the list
\* returned every Tensor leaf lies as many groups deep as its name has dots
\* (trailing, leading and doubled dots included); "a." alone gives the group
\* "a" with that single leaf.
C12_LeafDepthIsNumberOfDots ==
    tree_pc = "built" =>
        /\ \A p \in NodesAtDepth(tree_result, 0) :
              is_tensor(p[2]) => p[1] = Dots(p[2].name)
        /\ in_metadata = <<>>
              /\ [i \in 1..Len(in_tensors) |-> in_tensors[i].name] = << <<"a", ".">> >>
              => tree_result =
                    <<GroupNode(<<"a">>, <<TensorNode(in_tensors[1])>>, TRUE,
                                1, in_tensors[1].size_bytes)>>

-----------------------------------------------------------------------------
(* Claims about the size heuristic (SpecSize) *)

\* the dtype tag has the substring sub somewhere
HasSubstring(tag, sub) ==
    \E k \in 1..Len(tag) :
        /\ k + Len(sub) - 1 <= Len(tag)
        /\ \A j \in 1..Len(sub) : tag[k + j - 1] = sub[j]

RECURSIVE ProductOf(_)
ProductOf(shape) ==
    IF shape = <<>> THEN 1
    ELSE ProductOf(SubSeq(shape, 1, Len(shape) - 1)) * shape[Len(shape)]

\* C13: the TensorInfo of the safetensors path has num_elements equal to the
\* product of the shape (1 for the empty shape) and size_bytes equal to
\* num_elements * b, b being 2 if the tag has "16", else 1 if it has "8",
\* else 8 if it has "64", else 4; 100 elements tagged "F16" take 200 bytes.
C13_HeuristicSize ==
    fn_pc = "returned" =>
        LET t == fn_result
            b == CASE HasSubstring(t.dtype, <<"1", "6">>) -> 2
                   [] ~HasSubstring(t.dtype, <<"1", "6">>)
                        /\ HasSubstring(t.dtype, <<"8">>) -> 1
                   [] ~HasSubstring(t.dtype, <<"1", "6">>)
                        /\ ~HasSubstring(t.dtype, <<"8">>)
                        /\ HasSubstring(t.dtype, <<"6", "4">>) -> 8
                   [] OTHER -> 4
        IN /\ t.name = fn_args.name /\ t.dtype = fn_args.dtype
           /\ t.shape = fn_args.shape
           /\ t.num_elements = ProductOf(fn_args.shape)
           /\ fn_args.shape = <<>> => t.num_elements = 1
           /\ t.size_bytes = t.num_elements * b
           /\ t.num_elements = 100 /\ t.dtype = F16 => t.size_bytes = 200

\* C13 witness: a tensor of shape (10, 10) tagged "F16" decoded to 200 bytes
C13_Witness ==
    /\ fn_pc = "returned"
    /\ fn_args.shape = <<10, 10>> /\ fn_args.dtype = F16
    /\ fn_result.num_elements = 100 /\ fn_result.size_bytes = 200

-----------------------------------------------------------------------------
(* Claims about natural_sort_key (SpecKey) *)

\* C14: natural_sort_key has no failure mode and orders any strings: the key
\* of every text is built, any two keys can be compared (the first unequal
\* tokens of two keys are of one kind), the sorted list has the digit runs in
\* order of their integer value and the other runs in case-insensitive order,
\* and ["layer10", "layer2", "layer1"] sorts to ["layer1", "layer2", "layer10"].
C14_TotalNaturalOrder ==
    fn_pc # "call" =>
        /\ fn_pc = "returned"
        /\ \A i \in 1..Len(fn_args) : ~KeyRaises(fn_args[i])
        /\ \A i, j \in 1..Len(fn_args) :
              ~KeyCompareRaises(natural_sort_key(fn_args[i]),
                                natural_sort_key(fn_args[j]))
        /\ SameElements(fn_result, fn_args)
        /\ \A i, j \in 1..Len(fn_result) :
              i < j => ~NameLess(fn_result[j], fn_result[i])
        /\ fn_args = <<LAYER \o <<"1", "0">>, LAYER \o <<"2">>, LAYER \o <<"1">> >>
              => fn_result =
                    <<LAYER \o <<"1">>, LAYER \o <<"2">>, LAYER \o <<"1", "0">> >>

-----------------------------------------------------------------------------
(* Claims about the nodes of the tree (SpecTree) *)

\* C15: every node of the list build_tree_mixed returns, at any depth, is
\* exactly one of Group, Tensor leaf and Metadata leaf: exactly one of
\* is_group, is_tensor and is_metadata is true of it.
C15_ExactlyOneVariant ==
    tree_pc = "built" =>
        \A n \in Range(NodesOf(tree_result)) :
            /\ is_group(n) \/ is_tensor(n) \/ is_metadata(n)
            /\ ~(is_group(n) /\ is_tensor(n))
            /\ ~(is_group(n) /\ is_metadata(n))
            /\ ~(is_tensor(n) /\ is_metadata(n))

\* C15 witness: a tree with a Metadata leaf, a root-level Tensor leaf and a
\* Tensor leaf inside a Group
C15_Witness ==
    /\ tree_pc = "built"
    /\ \E n \in Range(NodesOf(tree_result)) : is_metadata(n)
    /\ \E n \in Range(tree_result) : is_tensor(n)
    /\ \E g \in Range(tree_result) :
          is_group(g) /\ \E n \in Range(ChildrenOf(g)) : is_tensor(n)

\* C16: in the list build_tree_mixed returns, a Group has expanded = true
\* exactly when it is a top-level group of the tensor hierarchy; the metadata
\* group and the groups nested at any depth have expanded = false.
C16_OnlyTopLevelGroupsExpanded ==
    tree_pc = "built" =>
        \A p \in NodesAtDepth(tree_result, 0) :
            is_group(p[2]) =>
                (p[2].expanded <=> (p[1] = 0 /\ ~IsMetadataGroup(p[2])))

\* C16 witness: the metadata group, a top-level group, and groups nested one
\* and two levels below it
C16_Witness ==
    /\ tree_pc = "built"
    /\ \E p \in NodesAtDepth(tree_result, 0) : IsMetadataGroup(p[2])
    /\ \E p \in NodesAtDepth(tree_result, 0) :
          p[1] = 0 /\ is_group(p[2]) /\ p[2].expanded
    /\ \E p \in NodesAtDepth(tree_result, 0) :
          p[1] = 2 /\ is_group(p[2]) /\ ~p[2].expanded

\* the pairs <<path, node>> for every node of a list of trees, path being the
\* names of the groups passed on the way down to it
RECURSIVE NodesWithPath(_, _)
NodesWithPath(nodes, path) ==
    UNION {{<<path, nodes[i]>>}
              \cup NodesWithPath(ChildrenOf(nodes[i]), Append(path, nodes[i].name)) :
              i \in 1..Len(nodes)}

\* C18: a tensor named s1.s2...sk is a Tensor leaf reached from the top level
\* through the groups named s1, s2, ..., s(k-1), in that order (through no
\* group when k = 1): at each level a tensor with no further dot in the rest
\* of its path is a direct leaf, and any other goes to the sub-group of its
\* next segment; and the groups among the children of one group have
\* pairwise distinct names.
C18_LeafReachedThroughItsSegments ==
    tree_pc = "built" =>
        /\ \A p \in NodesWithPath(tree_result, <<>>) :
              is_tensor(p[2]) =>
                 LET parts == Split(p[2].name)
                 IN p[1] = SubSeq(parts, 1, Len(parts) - 1)
        /\ \A g \in Range(NodesOf(tree_result)) :
              LET groups == SelectSeq(ChildrenOf(g), is_group)
              IN \A i, j \in 1..Len(groups) :
                    groups[i].name = groups[j].name => i = j

-----------------------------------------------------------------------------
(* More claims about the loader (SpecLoad, SpecReload) *)

\* the tensors appended by the files that decoded without error, in order
TensorsOfDecodedFiles ==
    Flatten([k \in 1..Len(h_files) |->
                IF h_files[k].outcome = "ok" THEN h_files[k].tensors ELSE <<>>])

\* the metadata appended by the files that decoded without error, in order
MetadataOfDecodedFiles ==
    Flatten([k \in 1..Len(h_files) |->
                IF h_files[k].outcome = "ok" THEN h_files[k].metadata ELSE <<>>])

\* C19: a file whose decoding raised contributes nothing: after load() the
\* lists are what the files that decoded without error give on their own --
\* loader.metadata their metadata, loader.tensors the first record of each
\* name among their tensors -- and total_parameters counts only those.
C19_FailedFileContributesNothing ==
    load_pc = "done" =>
        /\ l_metadata = MetadataOfDecodedFiles
        /\ Len(l_tensors) = Cardinality(FirstOfName(TensorsOfDecodedFiles))
        /\ \A i \in FirstOfName(TensorsOfDecodedFiles) :
              TensorsOfDecodedFiles[i] \in Range(l_tensors)
        /\ total_parameters =
              SumOver(FirstOfName(TensorsOfDecodedFiles),
                      [i \in 1..Len(TensorsOfDecodedFiles) |->
                          TensorsOfDecodedFiles[i].num_elements])

\* C20: load() is idempotent: at the return of a second call on the same
\* loader with the same files, loader.tensors, loader.total_parameters and
\* loader.metadata equal what they were at the return of the first call.
C20_LoadIdempotent ==
    \A k \in 1..Len(h_loads) : h_loads[k] = h_loads[1]

-----------------------------------------------------------------------------
(* Claims about format_size (SpecFormat) *)

\* the place of the blank of the text, 0 if it has none
BlankAt(text) ==
    IF \E i \in 1..Len(text) : text[i] = " "
    THEN CHOOSE i \in 1..Len(text) : text[i] = " " ELSE 0

\* digits, a point, one digit
HasOneDecimal(text) ==
    /\ Len(text) >= 3
    /\ text[Len(text) - 1] = "."
    /\ \A i \in 1..Len(text) : i # Len(text) - 1 => text[i] \in AsciiDigits

\* C17: format_size returns for every int n >= 0, with the unit B for
\* n < 1024 (the number printed as the integer n, no decimal), KB for
\* 1024 <= n < 1024^2, MB for 1024^2 <= n < 1024^3 and GB for every
\* n >= 1024^3, the last three with exactly one decimal digit; 512 gives
\* "512 B" and 1536 gives "1.5 KB".
C17_FormatSizeTotalAndUnits ==
    fn_pc # "call" =>
        /\ fn_pc = "returned"
        /\ LET n == fn_args
               number == SubSeq(fn_result, 1, BlankAt(fn_result) - 1)
               unit == SubSeq(fn_result, BlankAt(fn_result) + 1, Len(fn_result))
           IN /\ BlankAt(fn_result) > 0
              /\ Len(n) <= 1 =>
                    /\ unit = <<"B">>
                    /\ IsDigit(number)
                    /\ ToInt(number) = (IF n = <<>> THEN 0 ELSE n[1])
                    /\ Len(number) > 1 => number[1] # "0"
              /\ Len(n) = 2 => unit = <<"K", "B">> /\ HasOneDecimal(number)
              /\ Len(n) = 3 => unit = <<"M", "B">> /\ HasOneDecimal(number)
              /\ Len(n) >= 4 => unit = <<"G", "B">> /\ HasOneDecimal(number)
              /\ n = <<512>> => fn_result = <<"5", "1", "2", " ", "B">>
              /\ n = <<512, 1>> =>
                    fn_result = <<"1", ".", "5", " ", "K", "B">>

=============================================================================
